---- MODULE Spec2Model ----
(***************************************************************************)
(* Attendance tracker (src/src/App.js): the App component's state, its     *)
(* effects and handlers, the Firestore partition users/{userId}/subjects   *)
(* it reads through onSnapshot, and the arithmetic of calculatePercentage  *)
(* and calculateProjection in IEEE-754 binary64, as JavaScript numbers are.*)
(***************************************************************************)
EXTENDS Integers, Sequences, FiniteSets, TLC

(***************************************************************************)
(* Natural numbers of arbitrary size: little-endian sequences of limbs in  *)
(* base 2^15 without high zero limbs (a 53-bit significand and the 106-bit *)
(* product of two of them do not fit a 32-bit integer).                    *)
(***************************************************************************)
LimbBits == 15

Base == 32768

BigZero == <<>>

BigOne == <<1>>

RECURSIVE BigNorm(_)
BigNorm(a) ==
  IF a = <<>> THEN <<>>
  ELSE IF a[Len(a)] = 0 THEN BigNorm(SubSeq(a, 1, Len(a) - 1))
  ELSE a

RECURSIVE BigFromNat(_)
BigFromNat(n) ==
  IF n = 0 THEN <<>> ELSE <<n % Base>> \o BigFromNat(n \div Base)

RECURSIVE BigToNat(_)
BigToNat(a) ==
  IF a = <<>> THEN 0 ELSE a[1] + Base * BigToNat(Tail(a))

RECURSIVE BigCmpFrom(_, _, _)
BigCmpFrom(a, b, i) ==
  IF i = 0 THEN 0
  ELSE IF a[i] > b[i] THEN 1
  ELSE IF a[i] < b[i] THEN -1
  ELSE BigCmpFrom(a, b, i - 1)

BigCmp(a, b) ==
  IF Len(a) > Len(b) THEN 1
  ELSE IF Len(a) < Len(b) THEN -1
  ELSE BigCmpFrom(a, b, Len(a))

RECURSIVE BigAddC(_, _, _)
BigAddC(a, b, carry) ==
  IF a = <<>> /\ b = <<>> THEN (IF carry = 0 THEN <<>> ELSE <<carry>>)
  ELSE LET x == IF a = <<>> THEN 0 ELSE a[1]
           y == IF b = <<>> THEN 0 ELSE b[1]
           s == x + y + carry
       IN  <<s % Base>> \o BigAddC(IF a = <<>> THEN <<>> ELSE Tail(a),
                                    IF b = <<>> THEN <<>> ELSE Tail(b),
                                    s \div Base)

BigAdd(a, b) == BigAddC(a, b, 0)

RECURSIVE BigSubB(_, _, _)
BigSubB(a, b, borrow) ==
  IF a = <<>> THEN <<>>
  ELSE LET y == IF b = <<>> THEN 0 ELSE b[1]
           s == a[1] - y - borrow
       IN  <<IF s < 0 THEN s + Base ELSE s>>
             \o BigSubB(Tail(a), IF b = <<>> THEN <<>> ELSE Tail(b),
                        IF s < 0 THEN 1 ELSE 0)

\* a - b for a >= b
BigSub(a, b) == BigNorm(BigSubB(a, b, 0))

RECURSIVE BigMulSmallC(_, _, _)
BigMulSmallC(a, k, carry) ==
  IF a = <<>> THEN (IF carry = 0 THEN <<>> ELSE <<carry>>)
  ELSE LET s == a[1] * k + carry
       IN  <<s % Base>> \o BigMulSmallC(Tail(a), k, s \div Base)

\* a * k for 0 <= k < Base
BigMulSmall(a, k) == IF k = 0 THEN <<>> ELSE BigMulSmallC(a, k, 0)

BigShiftLimbs(a, n) ==
  IF a = <<>> THEN <<>> ELSE [i \in 1..n |-> 0] \o a

RECURSIVE BigMul(_, _)
BigMul(a, b) ==
  IF a = <<>> \/ b = <<>> THEN <<>>
  ELSE BigAdd(BigMulSmall(a, b[1]), BigShiftLimbs(BigMul(a, Tail(b)), 1))

\* a * 2^n
BigShl(a, n) ==
  BigShiftLimbs(BigMulSmall(a, 2 ^ (n % LimbBits)), n \div LimbBits)

\* floor(a / 2^n)
BigShr(a, n) ==
  LET drop == n \div LimbBits
      bits == n % LimbBits
      rest == IF drop >= Len(a) THEN <<>> ELSE SubSeq(a, drop + 1, Len(a))
      lo   == 2 ^ bits
      hi   == 2 ^ (LimbBits - bits)
  IN  BigNorm([i \in 1..Len(rest) |->
                 (rest[i] \div lo)
                 + (IF i < Len(rest) THEN (rest[i + 1] % lo) * hi ELSE 0)])

\* a mod 2^n
BigLowBits(a, n) ==
  LET keep == n \div LimbBits
      bits == n % LimbBits
  IN  IF keep >= Len(a) THEN a
      ELSE BigNorm(SubSeq(a, 1, keep) \o <<a[keep + 1] % (2 ^ bits)>>)

RECURSIVE BitLenSmall(_)
BitLenSmall(k) == IF k = 0 THEN 0 ELSE 1 + BitLenSmall(k \div 2)

BigBitLen(a) ==
  IF a = <<>> THEN 0 ELSE LimbBits * (Len(a) - 1) + BitLenSmall(a[Len(a)])

BigIsOdd(a) == a # <<>> /\ a[1] % 2 = 1

\* binary long division, bits i..0 of the quotient: st.q and st.r with
\* st.r + st.q * d constant
RECURSIVE BigDivStep(_, _, _)
BigDivStep(st, d, i) ==
  IF i < 0 THEN st
  ELSE LET t == BigShl(d, i)
       IN  IF BigCmp(st.r, t) >= 0
           THEN BigDivStep([q |-> BigAdd(st.q, BigShl(BigOne, i)),
                            r |-> BigSub(st.r, t)], d, i - 1)
           ELSE BigDivStep(st, d, i - 1)

\* [q, r] with n = q*d + r, 0 <= r < d, for d > 0
BigDivMod(n, d) ==
  BigDivStep([q |-> BigZero, r |-> n], d, BigBitLen(n) - BigBitLen(d))

\* quotient and remainder of a by k for 0 < k < Base, limb i downwards
RECURSIVE BigDivSmallFrom(_, _, _, _, _)
BigDivSmallFrom(a, k, i, rem, acc) ==
  IF i = 0 THEN [q |-> BigNorm(acc), r |-> BigFromNat(rem)]
  ELSE LET cur == rem * Base + a[i]
       IN  BigDivSmallFrom(a, k, i - 1, cur % k, <<cur \div k>> \o acc)

BigDivSmall(a, k) == BigDivSmallFrom(a, k, Len(a), 0, <<>>)

RECURSIVE TrailingZerosSmall(_)
TrailingZerosSmall(k) == IF k % 2 = 1 THEN 0 ELSE 1 + TrailingZerosSmall(k \div 2)

\* the number of low zero bits of a > 0
RECURSIVE BigTrailingZeros(_)
BigTrailingZeros(a) ==
  IF a[1] = 0 THEN LimbBits + BigTrailingZeros(Tail(a))
  ELSE TrailingZerosSmall(a[1])

(***************************************************************************)
(* JavaScript numbers: IEEE-754 binary64 values neg * m * 2^e with         *)
(* 2^52 <= m < 2^53, or zero (m = <<>>, e = 0).  Every arithmetic          *)
(* operation is the exact result rounded to nearest, ties to even.  The    *)
(* magnitudes that occur stay far from overflow and from subnormals.       *)
(***************************************************************************)
MantBits == 53

DZero == [neg |-> FALSE, m |-> BigZero, e |-> 0]

DIsZero(a) == a.m = BigZero

\* the double nearest to a value in [q, q + 1) * 2^e, where q has at least
\* MantBits + 2 bits and sticky tells whether the value exceeds q * 2^e
DRoundQ(neg, q, sticky, e) ==
  LET x    == BigBitLen(q) - MantBits
      mant == BigShr(q, x)
      c    == BigCmp(BigLowBits(q, x), BigShl(BigOne, x - 1))
      up   == c > 0 \/ (c = 0 /\ (sticky \/ BigIsOdd(mant)))
      m1   == IF up THEN BigAdd(mant, BigOne) ELSE mant
      over == BigBitLen(m1) > MantBits
  IN  [neg |-> neg,
       m   |-> IF over THEN BigShr(m1, 1) ELSE m1,
       e   |-> e + x + (IF over THEN 1 ELSE 0)]

\* the double nearest to (n / d) * 2^e for n > 0, d > 0; a power of two in
\* d moves to the exponent, and a divisor left with one limb takes the
\* short division
DRound(neg, n, d, e) ==
  LET z  == BigTrailingZeros(d)
      d0 == BigShr(d, z)
      k  == (MantBits + 2) - (BigBitLen(n) - BigBitLen(d0))
      nn == IF k >= 0 THEN BigShl(n, k) ELSE n
      dd == IF k >= 0 THEN d0 ELSE BigShl(d0, -k)
      dm == IF Len(dd) = 1 THEN BigDivSmall(nn, dd[1]) ELSE BigDivMod(nn, dd)
  IN  DRoundQ(neg, dm.q, dm.r # BigZero, (e - z) - k)

\* the double nearest to n * 2^e for n > 0
DRoundInt(neg, n, e) ==
  LET k == (MantBits + 2) - BigBitLen(n)
  IN  IF k >= 0 THEN DRoundQ(neg, BigShl(n, k), FALSE, e - k)
      ELSE DRoundQ(neg, BigShr(n, -k), BigLowBits(n, -k) # BigZero, e - k)

\* an integer as a number
DFromInt(i) ==
  IF i = 0 THEN DZero
  ELSE DRoundInt(i < 0, BigFromNat(IF i < 0 THEN -i ELSE i), 0)

\* a * b
DMul(a, b) ==
  IF DIsZero(a) \/ DIsZero(b)
  THEN [neg |-> a.neg # b.neg, m |-> BigZero, e |-> 0]
  ELSE DRoundInt(a.neg # b.neg, BigMul(a.m, b.m), a.e + b.e)

\* a / b for b # 0
DDiv(a, b) ==
  IF DIsZero(a)
  THEN [neg |-> a.neg # b.neg, m |-> BigZero, e |-> 0]
  ELSE DRound(a.neg # b.neg, a.m, b.m, a.e - b.e)

DNeg(a) == [a EXCEPT !.neg = ~a.neg]

\* a + b
DAdd(a, b) ==
  IF DIsZero(a) /\ DIsZero(b)
  THEN [neg |-> a.neg /\ b.neg, m |-> BigZero, e |-> 0]
  ELSE IF DIsZero(a) THEN b
  ELSE IF DIsZero(b) THEN a
  ELSE LET emin == IF a.e < b.e THEN a.e ELSE b.e
           x    == BigShl(a.m, a.e - emin)
           y    == BigShl(b.m, b.e - emin)
           c    == BigCmp(x, y)
       IN  IF a.neg = b.neg THEN DRoundInt(a.neg, BigAdd(x, y), emin)
           ELSE IF c = 0 THEN DZero
           ELSE IF c > 0 THEN DRoundInt(a.neg, BigSub(x, y), emin)
           ELSE DRoundInt(b.neg, BigSub(y, x), emin)

\* a - b
DSub(a, b) == DAdd(a, DNeg(b))

\* -1, 0, 1 as |a| <, =, > |b|
DCmpAbs(a, b) ==
  IF DIsZero(a) /\ DIsZero(b) THEN 0
  ELSE IF DIsZero(a) THEN -1
  ELSE IF DIsZero(b) THEN 1
  ELSE IF a.e > b.e THEN 1
  ELSE IF a.e < b.e THEN -1
  ELSE BigCmp(a.m, b.m)

\* -1, 0, 1 as a <, =, > b
DCmp(a, b) ==
  IF DIsZero(a) /\ DIsZero(b) THEN 0
  ELSE IF a.neg /\ ~b.neg THEN -1
  ELSE IF ~a.neg /\ b.neg THEN 1
  ELSE IF a.neg THEN -DCmpAbs(a, b)
  ELSE DCmpAbs(a, b)

\* a >= b
DGe(a, b) == DCmp(a, b) >= 0

\* Math.ceil(a) as an integer
DCeil(a) ==
  IF DIsZero(a) THEN 0
  ELSE IF a.e >= 0
  THEN (IF a.neg THEN -1 ELSE 1) * BigToNat(BigShl(a.m, a.e))
  ELSE LET fl   == BigToNat(BigShr(a.m, -a.e))
           frac == BigLowBits(a.m, -a.e) # BigZero
       IN  IF a.neg THEN -fl ELSE fl + (IF frac THEN 1 ELSE 0)

(***************************************************************************)
(* The calculations of App.js.  A count is a non-negative integer, or      *)
(* Missing (undefined) for a field the stored document does not have; it   *)
(* is encoded as -1, which no count is.                                    *)
(***************************************************************************)
Missing == -1

\* calculatePercentage without the multiplication by 100
calculatePercentage_Fraction(present, conducted) ==
  IF conducted = Missing \/ conducted = 0 THEN DZero
  ELSE DDiv(DFromInt(present), DFromInt(conducted))

\* src/src/App.js:74-77
calculatePercentage(present, conducted) ==
  IF conducted = Missing \/ conducted = 0 THEN DZero
  ELSE DMul(DDiv(DFromInt(present), DFromInt(conducted)), DFromInt(100))

\* calculateProjection with the operands of the subtraction exchanged
calculateProjection_Exchanged(present, conducted, target) ==
  IF present = Missing \/ conducted = Missing THEN 0
  ELSE
  LET targetDecimal == DDiv(DFromInt(target), DFromInt(100))
      needed == DCeil(DDiv(DSub(DFromInt(present),
                                DMul(targetDecimal, DFromInt(conducted))),
                           DSub(DFromInt(1), targetDecimal)))
  IN  IF conducted > 0
         /\ DGe(DDiv(DFromInt(present), DFromInt(conducted)), targetDecimal)
      THEN 0
      ELSE IF needed > 0 THEN needed ELSE 0

\* src/src/App.js:79-84; an undefined operand makes both the comparison and
\* "needed > 0" false (NaN), so the function returns 0
calculateProjection(present, conducted, target) ==
  IF present = Missing \/ conducted = Missing THEN 0
  ELSE
  LET targetDecimal == DDiv(DFromInt(target), DFromInt(100))
      needed == DCeil(DDiv(DSub(DMul(targetDecimal, DFromInt(conducted)),
                                DFromInt(present)),
                           DSub(DFromInt(1), targetDecimal)))
  IN  IF conducted > 0
         /\ DGe(DDiv(DFromInt(present), DFromInt(conducted)), targetDecimal)
      THEN 0
      ELSE IF needed > 0 THEN needed ELSE 0

\* Number.prototype.toFixed(2) (src/src/App.js:133) as hundredths: the
\* integer n with n / 100 nearest to a >= 0, the larger n on a tie
toFixed2(a) ==
  IF DIsZero(a) THEN 0
  ELSE LET n == BigMulSmall(a.m, 100)
       IN  IF a.e >= 0 THEN BigToNat(BigShl(n, a.e))
           ELSE BigToNat(BigShr(BigAdd(BigShl(n, 1), BigShl(BigOne, -a.e)),
                                1 - a.e))

(***************************************************************************)
(* Strings are sequences of one-character strings.                         *)
(***************************************************************************)
Space == " "

DigitChars == {"0", "1", "2", "3", "4", "5", "6", "7", "8", "9"}

IsDigit(ch) == ch \in DigitChars

DigitVal(ch) ==
  CASE ch = "0" -> 0 [] ch = "1" -> 1 [] ch = "2" -> 2 [] ch = "3" -> 3
    [] ch = "4" -> 4 [] ch = "5" -> 5 [] ch = "6" -> 6 [] ch = "7" -> 7
    [] ch = "8" -> 8 [] ch = "9" -> 9

RECURSIVE TrimStart(_)
TrimStart(str) ==
  IF str # <<>> /\ Head(str) = Space THEN TrimStart(Tail(str)) ELSE str

RECURSIVE TrimEnd(_)
TrimEnd(str) ==
  IF str # <<>> /\ str[Len(str)] = Space
  THEN TrimEnd(SubSeq(str, 1, Len(str) - 1))
  ELSE str

\* String.prototype.trim
trim(str) == TrimEnd(TrimStart(str))

\* the value of the longest prefix of digits of str, and how many they are
RECURSIVE DigitPrefix(_, _, _)
DigitPrefix(str, acc, n) ==
  IF str # <<>> /\ IsDigit(Head(str))
  THEN DigitPrefix(Tail(str), 10 * acc + DigitVal(Head(str)), n + 1)
  ELSE [value |-> acc, digits |-> n]

\* parseInt(value, 10): leading white space is skipped, then an optional
\* sign, then the longest run of digits; NaN when there is no digit
parseInt(str) ==
  LET t    == TrimStart(str)
      neg  == t # <<>> /\ Head(t) = "-"
      body == IF t # <<>> /\ Head(t) \in {"-", "+"} THEN Tail(t) ELSE t
      dp   == DigitPrefix(body, 0, 0)
  IN  [isNaN |-> dp.digits = 0,
       value |-> IF neg THEN -dp.value ELSE dp.value]

\* a.localeCompare(b) < 0, = 0, > 0 as -1, 0, 1: the order of the
\* characters is the order of their code points for the characters used
CharRank(ch) ==
  IF ch = Space THEN 0
  ELSE IF ch = "a" THEN 1
  ELSE IF ch = "b" THEN 2
  ELSE 3

RECURSIVE localeCompare(_, _)
localeCompare(x, y) ==
  IF x = <<>> /\ y = <<>> THEN 0
  ELSE IF x = <<>> THEN -1
  ELSE IF y = <<>> THEN 1
  ELSE IF CharRank(Head(x)) < CharRank(Head(y)) THEN -1
  ELSE IF CharRank(Head(x)) > CharRank(Head(y)) THEN 1
  ELSE localeCompare(Tail(x), Tail(y))

\* one element inserted after the elements that do not compare greater
RECURSIVE InsertByName(_, _)
InsertByName(sorted, rec) ==
  IF sorted = <<>> THEN <<rec>>
  ELSE IF localeCompare(Head(sorted).name, rec.name) <= 0
  THEN <<Head(sorted)>> \o InsertByName(Tail(sorted), rec)
  ELSE <<rec>> \o sorted

\* Array.prototype.sort((a, b) => a.name.localeCompare(b.name)), stable
RECURSIVE SortByName(_)
SortByName(recs) ==
  IF recs = <<>> THEN <<>>
  ELSE InsertByName(SortByName(SubSeq(recs, 1, Len(recs) - 1)),
                    recs[Len(recs)])

\* snapshot.docs: the documents of a partition in the order of their ids
RECURSIVE DocsInOrder(_)
DocsInOrder(docs) ==
  IF docs = {} THEN <<>>
  ELSE LET first == CHOOSE d \in docs : \A o \in docs : d.id <= o.id
       IN  <<first>> \o DocsInOrder(docs \ {first})

\* s.conducted || 0
OrZero(count) == IF count = Missing THEN 0 ELSE count

RECURSIVE SumConducted(_)
SumConducted(recs) ==
  IF recs = <<>> THEN 0
  ELSE OrZero(Head(recs).conducted) + SumConducted(Tail(recs))

RECURSIVE SumPresent(_)
SumPresent(recs) ==
  IF recs = <<>> THEN 0
  ELSE OrZero(Head(recs).present) + SumPresent(Tail(recs))

\* src/src/App.js:86-91
summaryOf(recs) ==
  LET totalConducted == SumConducted(recs)
      totalPresent   == SumPresent(recs)
  IN  [totalConducted    |-> totalConducted,
       totalPresent      |-> totalPresent,
       overallPercentage |-> calculatePercentage(totalPresent, totalConducted)]

(***************************************************************************)
(* Bounds of the model and the inputs the handlers are given.              *)
(***************************************************************************)
MaxDocs == 2

MaxSubs == 3

MaxInflight == 1

MaxAwaiting == 1

MaxLen == 2

MaxCount == 20

Null == "null"

Users == {"u1", "u2"}

Firestore == "firestore"

Lecture == <<"L", "e", "c", "t", "u", "r", "e">>

Targets == {75, 85}

CountFields == {"conducted", "present"}

\* all strings over the characters chars of length at most n
RECURSIVE StringsUpTo(_, _)
StringsUpTo(chars, n) ==
  IF n = 0 THEN {<<>>}
  ELSE LET shorter == StringsUpTo(chars, n - 1)
       IN  shorter \cup {Append(str, ch) : str \in shorter, ch \in chars}

NameInputs == {<<"a">>, <<Space, "b", Space>>, <<Space>>}

TypeInputs == {<<"L">>}

ValueInputs == {<<"1">>, <<"3">>, <<"-", "1">>, <<"x">>}

CommitmentInputs == {<<>>, <<"x">>}

FormStrings == StringsUpTo({Space, "a"}, MaxLen)

\* texts of a count input: empty, digits, a sign, a fraction, an exponent,
\* white space and letters before or after the digits
EditStrings ==
  {<<>>, <<"1">>, <<"1", "0">>, <<"-", "1">>, <<"-", "0">>, <<"+", "1">>,
   <<"x">>, <<"x", "1">>, <<"1", "x">>, <<Space, "1">>, <<"-">>,
   <<"1", ".", "5">>, <<"1", "e", "3">>}

(***************************************************************************)
(* State.  The component: subjects .. advice are the useState cells of     *)
(* App.js:10-24; mounted, started, effectDeps and unsubscribe are React's  *)
(* bookkeeping of the two effects.  The environment: the partitions of the *)
(* store, its listeners, the snapshots it has queued for them, the store   *)
(* calls that are awaited and the sign-in that is awaited.  docOwner,      *)
(* deleted and lastPush are history variables.  calc holds the arguments   *)
(* and results of the calculators when they are exercised on their own.    *)
(***************************************************************************)
VARIABLES subjects, isLoading, error, userId, db,
          isModalOpen, newSubjectName, newSubjectType,
          targetAdvicePercentage, futureCommitments, advice,
          mounted, started, authListening, signingIn, effectDeps, unsubscribe,
          store, nextId, listeners, nextSid, inflight, awaiting,
          docOwner, deleted, lastPush, calc

formVars == <<isModalOpen, newSubjectName, newSubjectType>>

adviceVars == <<targetAdvicePercentage, futureCommitments, advice>>

viewVars == <<subjects, isLoading, error>>

identVars == <<userId, db, started, authListening, signingIn>>

subVars == <<effectDeps, unsubscribe, listeners, nextSid>>

storeVars == <<store, nextId, docOwner, deleted>>

vars == <<subjects, isLoading, error, userId, db,
          isModalOpen, newSubjectName, newSubjectType,
          targetAdvicePercentage, futureCommitments, advice,
          mounted, started, authListening, signingIn, effectDeps, unsubscribe,
          store, nextId, listeners, nextSid, inflight, awaiting,
          docOwner, deleted, lastPush, calc>>

NoCalc == [phase |-> "idle"]

\* src/src/App.js:10-24: the state of the component when it is constructed
InitApp ==
  /\ subjects = <<>>
  /\ isLoading = TRUE
  /\ error = Null
  /\ userId = Null
  /\ db = Null
  /\ isModalOpen = FALSE
  /\ newSubjectName = <<>>
  /\ newSubjectType = Lecture
  /\ targetAdvicePercentage = 75
  /\ futureCommitments = <<>>
  /\ advice = <<>>
  /\ mounted = TRUE
  /\ started = FALSE
  /\ authListening = FALSE
  /\ signingIn = FALSE
  /\ effectDeps = <<Null, Null>>
  /\ unsubscribe = 0
  /\ store = [u \in Users |-> {}]
  /\ nextId = 1
  /\ listeners = {}
  /\ nextSid = 1
  /\ inflight = <<>>
  /\ awaiting = {}
  /\ docOwner = [i \in 1..(MaxDocs + 1) |-> Null]
  /\ deleted = {}
  /\ lastPush = [sid |-> 0, docs |-> {}, gone |-> {}]

Init == InitApp /\ calc = NoCalc

\* useMemo(..., [subjects]), src/src/App.js:86-91
summary == summaryOf(subjects)

SubjectIds == {subjects[i].id : i \in 1..Len(subjects)}

\* the snapshots the store queues for the listeners of partition uid when
\* its documents become docs, in the order the listeners were registered
RECURSIVE Notify(_, _, _, _, _)
Notify(queue, ls, uid, docs, gone) ==
  LET mine == {l \in ls : l.uid = uid}
  IN  IF mine = {} THEN queue
      ELSE LET l == CHOOSE x \in mine : \A y \in mine : x.sid <= y.sid
           IN  Notify(Append(queue, [sid |-> l.sid, docs |-> docs, gone |-> gone]),
                      ls \ {l}, uid, docs, gone)

ErrInit == "Failed to initialize Firebase. Please provide your config in App.js."

ErrAuth == "Authentication failed."

ErrLoad == "Failed to load data. Check Firestore rules."

ErrAdd == "Could not add subject."

ErrUpdate == "Could not update subject."

ErrDelete == "Could not delete subject."

(***************************************************************************)
(* Initialization and identity, src/src/App.js:28-53.                      *)
(***************************************************************************)
\* the mount effect: the try block succeeds (ok) or throws
InitializeFirebase(ok) ==
  /\ mounted /\ ~started
  /\ started' = TRUE
  /\ db' = IF ok THEN Firestore ELSE db
  /\ authListening' = ok
  /\ error' = IF ok THEN error ELSE ErrInit
  /\ isLoading' = IF ok THEN isLoading ELSE FALSE
  /\ UNCHANGED <<subjects, userId, signingIn, formVars, adviceVars, mounted,
                 subVars, storeVars, inflight, awaiting, lastPush, calc>>

\* the onAuthStateChanged callback, given the provider's user or null; the
\* number of identity changes is capped so that nextSid stays bounded
AuthStateChanged(user) ==
  /\ mounted /\ authListening
  /\ (user # Null /\ user # userId) => nextSid <= MaxSubs
  /\ userId' = IF user # Null THEN user ELSE userId
  /\ signingIn' = (user = Null)
  /\ UNCHANGED <<viewVars, db, started, authListening, formVars, adviceVars,
                 mounted, subVars, storeVars, inflight, awaiting, lastPush,
                 calc>>

\* signInAnonymously(auth) rejects
SignInRejected ==
  /\ mounted /\ signingIn
  /\ signingIn' = FALSE
  /\ error' = ErrAuth
  /\ UNCHANGED <<subjects, isLoading, userId, db, started, authListening,
                 formVars, adviceVars, mounted, subVars, storeVars, inflight,
                 awaiting, lastPush, calc>>

(***************************************************************************)
(* The live subscription, src/src/App.js:56-71.                            *)
(***************************************************************************)
\* an effect that returns no cleanup: nothing is unsubscribed
AfterCleanup_None == listeners

\* the listeners left when the cleanup of the previous run has been called
AfterCleanup == {l \in listeners : l.sid # unsubscribe}

\* the effect re-runs because userId or db differs from its last run: the
\* previous cleanup, then the body
SubscriptionEffect ==
  /\ mounted
  /\ effectDeps # <<userId, db>>
  /\ effectDeps' = <<userId, db>>
  /\ IF userId = Null \/ db = Null
     THEN /\ listeners' = AfterCleanup
          /\ unsubscribe' = 0
          /\ UNCHANGED <<isLoading, nextSid, inflight>>
     ELSE /\ isLoading' = TRUE
          /\ listeners' = AfterCleanup \cup {[sid |-> nextSid, uid |-> userId]}
          /\ unsubscribe' = nextSid
          /\ nextSid' = nextSid + 1
          /\ inflight' = Append(inflight, [sid |-> nextSid,
                                           docs |-> store[userId],
                                           gone |-> deleted])
  /\ UNCHANGED <<subjects, error, identVars, formVars, adviceVars, mounted,
                 storeVars, awaiting, lastPush, calc>>

\* the component is discarded: the cleanup of the last run is called
Unmount ==
  /\ mounted
  /\ mounted' = FALSE
  /\ listeners' = AfterCleanup
  /\ unsubscribe' = 0
  /\ UNCHANGED <<viewVars, identVars, formVars, adviceVars, effectDeps,
                 nextSid, storeVars, inflight, awaiting, lastPush, calc>>

ActiveSids == {l.sid : l \in listeners}

\* a snapshot callback that patches the collection: the records of the
\* snapshot replace those with the same id, the others stay
SnapshotDelivered_Patch ==
  /\ inflight # <<>>
  /\ Head(inflight).sid \in ActiveSids
  /\ LET ids  == {d.id : d \in Head(inflight).docs}
         kept == {subjects[i] : i \in {j \in 1..Len(subjects) :
                                          subjects[j].id \notin ids}}
     IN  subjects' = SortByName(DocsInOrder(Head(inflight).docs \cup kept))
  /\ isLoading' = FALSE
  /\ inflight' = Tail(inflight)
  /\ lastPush' = Head(inflight)
  /\ UNCHANGED <<error, identVars, formVars, adviceVars, mounted, subVars,
                 storeVars, awaiting, calc>>

\* the snapshot callback, lines 60-64, for the oldest queued snapshot
SnapshotDelivered ==
  /\ inflight # <<>>
  /\ Head(inflight).sid \in ActiveSids
  /\ subjects' = SortByName(DocsInOrder(Head(inflight).docs))
  /\ isLoading' = FALSE
  /\ inflight' = Tail(inflight)
  /\ lastPush' = Head(inflight)
  /\ UNCHANGED <<error, identVars, formVars, adviceVars, mounted, subVars,
                 storeVars, awaiting, calc>>

\* a snapshot queued for a listener that has been unsubscribed or has
\* failed is never handed to its callback
SnapshotDropped ==
  /\ inflight # <<>>
  /\ Head(inflight).sid \notin ActiveSids
  /\ inflight' = Tail(inflight)
  /\ UNCHANGED <<viewVars, identVars, formVars, adviceVars, mounted, subVars,
                 storeVars, awaiting, lastPush, calc>>

\* the error callback, lines 65-68: the listener l fails and is removed; the
\* error is the last event of a listener, after the snapshots queued for it
SnapshotError(l) ==
  /\ l \in listeners
  /\ \A i \in 1..Len(inflight) : inflight[i].sid # l.sid
  /\ listeners' = listeners \ {l}
  /\ error' = ErrLoad
  /\ isLoading' = FALSE
  /\ UNCHANGED <<subjects, identVars, formVars, adviceVars, mounted,
                 effectDeps, unsubscribe, nextSid, storeVars, inflight,
                 awaiting, lastPush, calc>>

(***************************************************************************)
(* Database operations, src/src/App.js:94-126.  A handler runs up to its   *)
(* await; the awaited call later resolves or rejects and the rest of the   *)
(* handler runs.  setState calls of a discarded component have no effect.  *)
(***************************************************************************)
WriteCall(op, uid, id, name, type, field, value) ==
  [op |-> op, uid |-> uid, id |-> id, name |-> name, type |-> type,
   field |-> field, value |-> value]

CanAwait == Cardinality(awaiting) < MaxAwaiting /\ Len(inflight) < MaxInflight

\* the form is submitted; both inputs carry the required attribute
\* (lines 297 and 301), so the browser submits no empty value
handleAddSubject ==
  /\ mounted /\ isModalOpen
  /\ newSubjectName # <<>> /\ newSubjectType # <<>>
  /\ IF trim(newSubjectName) = <<>> \/ userId = Null \/ db = Null
     THEN UNCHANGED awaiting
     ELSE /\ CanAwait
          /\ nextId + Cardinality({w \in awaiting : w.op = "add"}) <= MaxDocs
          /\ awaiting' = awaiting \cup
               {WriteCall("add", userId, 0, trim(newSubjectName),
                          trim(newSubjectType), "", 0)}
  /\ UNCHANGED <<viewVars, identVars, formVars, adviceVars, mounted, subVars,
                 storeVars, inflight, lastPush, calc>>

\* addDoc resolves: the document { name, type, conducted: 0, present: 0 }
\* exists under a fresh id; lines 104-106 follow
AddResolved(w) ==
  /\ w \in awaiting /\ w.op = "add"
  /\ awaiting' = awaiting \ {w}
  /\ LET docs == store[w.uid] \cup
                   {[id |-> nextId, name |-> w.name, type |-> w.type,
                     conducted |-> 0, present |-> 0]}
     IN  /\ store' = [store EXCEPT ![w.uid] = docs]
         /\ inflight' = Notify(inflight, listeners, w.uid, docs, deleted)
  /\ docOwner' = [docOwner EXCEPT ![nextId] = w.uid]
  /\ nextId' = nextId + 1
  /\ IF mounted
     THEN /\ newSubjectName' = <<>>
          /\ newSubjectType' = Lecture
          /\ isModalOpen' = FALSE
     ELSE UNCHANGED formVars
  /\ UNCHANGED <<viewVars, identVars, adviceVars, mounted, subVars, deleted,
                 lastPush, calc>>

\* the awaited call rejects: the catch clause of its handler
WriteRejected(w) ==
  /\ w \in awaiting
  /\ awaiting' = awaiting \ {w}
  /\ error' = IF ~mounted THEN error
              ELSE IF w.op = "add" THEN ErrAdd
              ELSE IF w.op = "update" THEN ErrUpdate
              ELSE ErrDelete
  /\ UNCHANGED <<subjects, isLoading, identVars, formVars, adviceVars,
                 mounted, subVars, storeVars, inflight, lastPush, calc>>

\* the rows with their inputs and delete buttons are rendered, lines 192-212
RowRendered(id) == ~isLoading /\ id \in SubjectIds

\* handleUpdateSubject without the test numericValue < 0
handleUpdateSubject_Signed(id, field, value) ==
  /\ mounted /\ RowRendered(id)
  /\ LET numericValue == parseInt(value)
     IN  IF userId = Null \/ db = Null \/ numericValue.isNaN
         THEN UNCHANGED awaiting
         ELSE /\ CanAwait
              /\ awaiting' = awaiting \cup
                   {WriteCall("update", userId, id, <<>>, <<>>, field,
                              numericValue.value)}
  /\ UNCHANGED <<viewVars, identVars, formVars, adviceVars, mounted, subVars,
                 storeVars, inflight, lastPush, calc>>

\* onChange of a count input of row id, with the text of the input
handleUpdateSubject(id, field, value) ==
  /\ mounted /\ RowRendered(id)
  /\ LET numericValue == parseInt(value)
     IN  IF userId = Null \/ db = Null
            \/ numericValue.isNaN \/ numericValue.value < 0
         THEN UNCHANGED awaiting
         ELSE /\ CanAwait
              /\ awaiting' = awaiting \cup
                   {WriteCall("update", userId, id, <<>>, <<>>, field,
                              numericValue.value)}
  /\ UNCHANGED <<viewVars, identVars, formVars, adviceVars, mounted, subVars,
                 storeVars, inflight, lastPush, calc>>

SetField(d, field, value) ==
  IF field = "conducted" THEN [d EXCEPT !.conducted = value]
  ELSE [d EXCEPT !.present = value]

\* updateDoc resolves; it rejects when the document does not exist
UpdateResolved(w) ==
  /\ w \in awaiting /\ w.op = "update"
  /\ \E d \in store[w.uid] : d.id = w.id
  /\ awaiting' = awaiting \ {w}
  /\ LET docs == {IF d.id = w.id THEN SetField(d, w.field, w.value) ELSE d :
                    d \in store[w.uid]}
     IN  /\ store' = [store EXCEPT ![w.uid] = docs]
         /\ inflight' = IF docs = store[w.uid] THEN inflight
                        ELSE Notify(inflight, listeners, w.uid, docs, deleted)
  /\ UNCHANGED <<viewVars, identVars, formVars, adviceVars, mounted, subVars,
                 nextId, docOwner, deleted, lastPush, calc>>

\* handleDeleteSubject that also removes the row from the local collection
handleDeleteSubject_Optimistic(id, confirmed) ==
  /\ mounted /\ RowRendered(id)
  /\ IF userId = Null \/ db = Null \/ ~confirmed
     THEN UNCHANGED <<awaiting, subjects>>
     ELSE /\ CanAwait
          /\ awaiting' = awaiting \cup
               {WriteCall("delete", userId, id, <<>>, <<>>, "", 0)}
          /\ subjects' = SelectSeq(subjects, LAMBDA rec : rec.id # id)
  /\ UNCHANGED <<isLoading, error, identVars, formVars, adviceVars, mounted,
                 subVars, storeVars, inflight, lastPush, calc>>

\* the delete button of row id, and the answer to window.confirm
handleDeleteSubject(id, confirmed) ==
  /\ mounted /\ RowRendered(id)
  /\ IF userId = Null \/ db = Null \/ ~confirmed
     THEN UNCHANGED awaiting
     ELSE /\ CanAwait
          /\ awaiting' = awaiting \cup
               {WriteCall("delete", userId, id, <<>>, <<>>, "", 0)}
  /\ UNCHANGED <<viewVars, identVars, formVars, adviceVars, mounted, subVars,
                 storeVars, inflight, lastPush, calc>>

\* deleteDoc resolves; deleting a document that does not exist changes
\* nothing
DeleteResolved(w) ==
  /\ w \in awaiting /\ w.op = "delete"
  /\ awaiting' = awaiting \ {w}
  /\ LET docs == {d \in store[w.uid] : d.id # w.id}
         gone == IF docs = store[w.uid] THEN deleted ELSE deleted \cup {w.id}
     IN  /\ store' = [store EXCEPT ![w.uid] = docs]
         /\ deleted' = gone
         /\ inflight' = IF docs = store[w.uid] THEN inflight
                        ELSE Notify(inflight, listeners, w.uid, docs, gone)
  /\ UNCHANGED <<viewVars, identVars, formVars, adviceVars, mounted, subVars,
                 nextId, docOwner, lastPush, calc>>

\* another client of the same store creates a document in partition uid;
\* documents need not carry both counts ({ id: doc.id, ...doc.data() })
ExternalCreate(uid, name, conducted, present) ==
  /\ nextId + Cardinality({w \in awaiting : w.op = "add"}) <= MaxDocs
  /\ Len(inflight) < MaxInflight
  /\ LET docs == store[uid] \cup
                   {[id |-> nextId, name |-> name, type |-> Lecture,
                     conducted |-> conducted, present |-> present]}
     IN  /\ store' = [store EXCEPT ![uid] = docs]
         /\ inflight' = Notify(inflight, listeners, uid, docs, deleted)
  /\ docOwner' = [docOwner EXCEPT ![nextId] = uid]
  /\ nextId' = nextId + 1
  /\ UNCHANGED <<viewVars, identVars, formVars, adviceVars, mounted, subVars,
                 deleted, awaiting, lastPush, calc>>

(***************************************************************************)
(* The advisor and the inputs of the page.                                 *)
(***************************************************************************)
\* handleGetAdvice with > in place of >=
handleGetAdvice_Strict ==
  /\ mounted
  /\ LET needed == calculateProjection(summary.totalPresent,
                                       summary.totalConducted,
                                       targetAdvicePercentage)
         met    == DCmp(summary.overallPercentage,
                        DFromInt(targetAdvicePercentage)) > 0
     IN  advice' = <<[current    |-> toFixed2(summary.overallPercentage),
                      target     |-> targetAdvicePercentage,
                      met        |-> met,
                      needed     |-> IF met THEN Missing ELSE needed,
                      commitment |-> IF trim(futureCommitments) # <<>>
                                     THEN futureCommitments ELSE <<>>]>>
  /\ UNCHANGED <<viewVars, identVars, formVars, targetAdvicePercentage,
                 futureCommitments, mounted, subVars, storeVars, inflight,
                 awaiting, lastPush, calc>>

\* src/src/App.js:129-146.  The message is kept as its parts: the current
\* percentage as printed by toFixed(2) (in hundredths), the target, the
\* branch taken, the number of classes named in the second branch (Missing
\* in the first, which names none) and the commitment echoed (<<>> when the
\* generic sentence is appended)
handleGetAdvice ==
  /\ mounted
  /\ LET needed == calculateProjection(summary.totalPresent,
                                       summary.totalConducted,
                                       targetAdvicePercentage)
         met    == DGe(summary.overallPercentage,
                       DFromInt(targetAdvicePercentage))
     IN  advice' = <<[current    |-> toFixed2(summary.overallPercentage),
                      target     |-> targetAdvicePercentage,
                      met        |-> met,
                      needed     |-> IF met THEN Missing ELSE needed,
                      commitment |-> IF trim(futureCommitments) # <<>>
                                     THEN futureCommitments ELSE <<>>]>>
  /\ UNCHANGED <<viewVars, identVars, formVars, targetAdvicePercentage,
                 futureCommitments, mounted, subVars, storeVars, inflight,
                 awaiting, lastPush, calc>>

\* line 270
setTargetAdvicePercentage(p) ==
  /\ mounted
  /\ targetAdvicePercentage' = p
  /\ UNCHANGED <<viewVars, identVars, formVars, futureCommitments, advice,
                 mounted, subVars, storeVars, inflight, awaiting, lastPush,
                 calc>>

\* line 276
setFutureCommitments(text) ==
  /\ mounted
  /\ futureCommitments' = text
  /\ UNCHANGED <<viewVars, identVars, formVars, targetAdvicePercentage,
                 advice, mounted, subVars, storeVars, inflight, awaiting,
                 lastPush, calc>>

\* lines 171 and 291
setIsModalOpen(open) ==
  /\ mounted
  /\ isModalOpen' = open
  /\ UNCHANGED <<viewVars, identVars, newSubjectName, newSubjectType,
                 adviceVars, mounted, subVars, storeVars, inflight, awaiting,
                 lastPush, calc>>

\* line 297
setNewSubjectName(text) ==
  /\ mounted /\ isModalOpen
  /\ newSubjectName' = text
  /\ UNCHANGED <<viewVars, identVars, isModalOpen, newSubjectType,
                 adviceVars, mounted, subVars, storeVars, inflight, awaiting,
                 lastPush, calc>>

\* line 301
setNewSubjectType(text) ==
  /\ mounted /\ isModalOpen
  /\ newSubjectType' = text
  /\ UNCHANGED <<viewVars, identVars, isModalOpen, newSubjectName,
                 adviceVars, mounted, subVars, storeVars, inflight, awaiting,
                 lastPush, calc>>

(***************************************************************************)
(* The application.                                                        *)
(***************************************************************************)
\* the whole page, two identities
Next ==
  \/ \E ok \in BOOLEAN : InitializeFirebase(ok)
  \/ \E user \in Users \cup {Null} : AuthStateChanged(user)
  \/ SignInRejected
  \/ SubscriptionEffect
  \/ Unmount
  \/ SnapshotDelivered
  \/ SnapshotDropped
  \/ \E l \in listeners : SnapshotError(l)
  \/ \E w \in awaiting : AddResolved(w)
  \/ \E w \in awaiting : UpdateResolved(w)
  \/ \E w \in awaiting : DeleteResolved(w)
  \/ \E w \in awaiting : WriteRejected(w)
  \/ \E open \in BOOLEAN : setIsModalOpen(open)
  \/ \E text \in NameInputs : setNewSubjectName(text)
  \/ \E text \in TypeInputs : setNewSubjectType(text)
  \/ handleAddSubject
  \/ \E id \in 1..MaxDocs, field \in CountFields, value \in ValueInputs :
       handleUpdateSubject(id, field, value)
  \/ \E id \in 1..MaxDocs, confirmed \in BOOLEAN :
       handleDeleteSubject(id, confirmed)
  \/ \E uid \in Users : ExternalCreate(uid, <<"b">>, Missing, 2)
  \/ \E p \in Targets : setTargetAdvicePercentage(p)
  \/ \E text \in CommitmentInputs : setFutureCommitments(text)
  \/ handleGetAdvice

Spec == Init /\ [][Next]_vars

\* one identity, its records written, read back and deleted; every awaited
\* call resolves
NextSync ==
  \/ InitializeFirebase(TRUE)
  \/ AuthStateChanged("u1")
  \/ SubscriptionEffect
  \/ SnapshotDelivered
  \/ \E w \in awaiting : AddResolved(w)
  \/ \E w \in awaiting : UpdateResolved(w)
  \/ \E w \in awaiting : DeleteResolved(w)
  \/ setIsModalOpen(TRUE)
  \/ setNewSubjectName(<<Space, "a">>)
  \/ handleAddSubject
  \/ \E id \in 1..MaxDocs : handleUpdateSubject(id, "conducted", <<"1">>)
  \/ \E id \in 1..MaxDocs, confirmed \in BOOLEAN :
       handleDeleteSubject(id, confirmed)
  \/ ExternalCreate("u1", <<"b">>, Missing, 2)

SpecSync == Init /\ [][NextSync]_vars

\* one identity and its own writes, each of which resolves or rejects
NextWrites ==
  \/ InitializeFirebase(TRUE)
  \/ AuthStateChanged("u1")
  \/ SubscriptionEffect
  \/ SnapshotDelivered
  \/ \E w \in awaiting : AddResolved(w)
  \/ \E w \in awaiting : UpdateResolved(w)
  \/ \E w \in awaiting : DeleteResolved(w)
  \/ \E w \in awaiting : WriteRejected(w)
  \/ setIsModalOpen(TRUE)
  \/ setNewSubjectName(<<"b", Space>>)
  \/ handleAddSubject
  \/ \E id \in 1..MaxDocs, value \in {<<"1">>, <<"x">>} :
       handleUpdateSubject(id, "present", value)
  \/ \E id \in 1..MaxDocs, confirmed \in BOOLEAN :
       handleDeleteSubject(id, confirmed)

SpecWrites == Init /\ [][NextWrites]_vars

\* the identity changes while records exist
NextIdentity ==
  \/ \E ok \in BOOLEAN : InitializeFirebase(ok)
  \/ \E user \in Users \cup {Null} : AuthStateChanged(user)
  \/ SignInRejected
  \/ SubscriptionEffect
  \/ Unmount
  \/ SnapshotDelivered
  \/ SnapshotDropped
  \/ \E l \in listeners : SnapshotError(l)
  \/ \E w \in awaiting : AddResolved(w)
  \/ \E w \in awaiting : WriteRejected(w)
  \/ setIsModalOpen(TRUE)
  \/ setNewSubjectName(<<"a">>)
  \/ handleAddSubject

SpecIdentity == Init /\ [][NextIdentity]_vars

\* one identity, records of other clients with any counts, the advisor
NextAdvice ==
  \/ InitializeFirebase(TRUE)
  \/ AuthStateChanged("u1")
  \/ SubscriptionEffect
  \/ SnapshotDelivered
  \/ \E conducted \in {Missing, 4, 20}, present \in {3, 17} :
       ExternalCreate("u1", <<"b">>, conducted, present)
  \/ \E p \in Targets : setTargetAdvicePercentage(p)
  \/ handleGetAdvice

SpecAdvice == Init /\ [][NextAdvice]_vars

\* one identity, the form filled with every string of FormStrings
NextForm ==
  \/ InitializeFirebase(TRUE)
  \/ AuthStateChanged("u1")
  \/ SubscriptionEffect
  \/ SnapshotDelivered
  \/ \E open \in BOOLEAN : setIsModalOpen(open)
  \/ \E text \in FormStrings : setNewSubjectName(text)
  \/ \E text \in FormStrings : setNewSubjectType(text)
  \/ handleAddSubject
  \/ \E w \in awaiting : AddResolved(w)
  \/ \E w \in awaiting : WriteRejected(w)

SpecForm == Init /\ [][NextForm]_vars

\* one identity, records created elsewhere, the count inputs of the first
\* row given every string of EditStrings
NextEdit ==
  \/ InitializeFirebase(TRUE)
  \/ AuthStateChanged("u1")
  \/ SubscriptionEffect
  \/ SnapshotDelivered
  \/ ExternalCreate("u1", <<"a">>, 0, 0)
  \/ \E field \in CountFields, value \in EditStrings :
       handleUpdateSubject(1, field, value)
  \/ \E w \in awaiting : UpdateResolved(w)
  \/ \E w \in awaiting : WriteRejected(w)

SpecEdit == Init /\ [][NextEdit]_vars

(***************************************************************************)
(* The calculators on their own: the arguments are drawn from              *)
(* 0..MaxCount and the two targets of the page (lines 244-251 and 269),    *)
(* and each calculator is applied to them.                                 *)
(***************************************************************************)
CalcArgs ==
  {[phase |-> "args", p1 |-> p1, p2 |-> p2, c |-> c, t |-> t,
    n1 |-> 0, n2 |-> 0, pct |-> DZero] :
     p1 \in 0..MaxCount, p2 \in 0..MaxCount, c \in 0..MaxCount, t \in Targets}

InitCalc == InitApp /\ calc \in {a \in CalcArgs : a.p1 <= a.p2}

appVars == <<subjects, isLoading, error, userId, db,
             isModalOpen, newSubjectName, newSubjectType,
             targetAdvicePercentage, futureCommitments, advice,
             mounted, started, authListening, signingIn, effectDeps,
             unsubscribe, store, nextId, listeners, nextSid, inflight,
             awaiting, docOwner, deleted, lastPush>>

\* calculateProjection applied to (p1, c, t) and to (p2, c, t)
ApplyProjection ==
  /\ calc.phase = "args"
  /\ calc' = [calc EXCEPT !.phase = "projection",
                          !.n1 = calculateProjection(calc.p1, calc.c, calc.t),
                          !.n2 = calculateProjection(calc.p2, calc.c, calc.t)]
  /\ UNCHANGED appVars

\* calculatePercentage applied to (p1, c)
ApplyPercentage ==
  /\ calc.phase = "args"
  /\ calc' = [calc EXCEPT !.phase = "percentage",
                          !.pct = calculatePercentage(calc.p1, calc.c)]
  /\ UNCHANGED appVars

NextCalc == ApplyProjection \/ ApplyPercentage

SpecCalc == InitCalc /\ [][NextCalc]_vars

(***************************************************************************)
(* Properties.                                                             *)
(***************************************************************************)
\* n additional attended classes reach the target:
\* (present + n) / (conducted + n) >= target / 100, in exact arithmetic
Reaches(present, conducted, target, n) ==
  100 * (present + n) >= target * (conducted + n)

\* C1: for present >= 0, conducted >= 1 and target in {75, 85},
\* calculateProjection returns the least n >= 0 with
\* (present + n) / (conducted + n) >= target / 100, hence 0 when
\* present / conducted >= target / 100 already
C1_MinimalProjection ==
  (calc.phase = "projection" /\ calc.c >= 1) =>
     /\ calc.n1 >= 0
     /\ Reaches(calc.p1, calc.c, calc.t, calc.n1)
     /\ \A n \in 0..(calc.n1 - 1) : ~Reaches(calc.p1, calc.c, calc.t, n)

\* C2: calculateProjection does not increase when present increases, for
\* every conducted >= 0 (0 included) and every p1 <= p2 (p2 > conducted
\* included)
C2_Monotone ==
  calc.phase = "projection" => calc.n2 <= calc.n1

C2_Witness ==
  /\ calc.phase = "projection"
  /\ calc.p1 < calc.p2 /\ calc.p2 > calc.c
  /\ calc.n2 < calc.n1

\* |a * conducted - 100 * present| as a multiple of 2^-a.e, and the exact
\* 100 * present in the same unit, for a number a with a.e <= 0
ScaledResult(a, conducted) == BigMulSmall(a.m, conducted)

ScaledRatio(a, present) == BigShl(BigFromNat(100 * present), -a.e)

AbsDiff(x, y) == IF BigCmp(x, y) >= 0 THEN BigSub(x, y) ELSE BigSub(y, x)

D100 == DFromInt(100)

\* C3 as stated: calculatePercentage returns 0 when conducted = 0, and for
\* 0 <= present <= conducted, conducted >= 1, the ratio
\* present / conducted * 100 (the number nearest to it), within [0, 100]
C3_ExactRatio ==
  calc.phase = "percentage" =>
     /\ calc.c = 0 => calc.pct = DZero
     /\ (calc.c >= 1 /\ calc.p1 <= calc.c) =>
          /\ calc.pct = (IF calc.p1 = 0 THEN DZero
                         ELSE DRound(FALSE, BigFromNat(100 * calc.p1),
                                     BigFromNat(calc.c), 0))
          /\ DGe(calc.pct, DZero) /\ DGe(D100, calc.pct)

\* C3 amended: calculatePercentage returns 0 when conducted = 0, and for
\* 0 <= present <= conducted, conducted >= 1, a number within [0, 100]
\* whose distance from present / conducted * 100 is at most 2^-51 of that
\* ratio (the two roundings of the division and the multiplication)
C3_RoundedRatio ==
  calc.phase = "percentage" =>
     /\ calc.c = 0 => calc.pct = DZero
     /\ (calc.c >= 1 /\ calc.p1 <= calc.c) =>
          /\ DGe(calc.pct, DZero) /\ DGe(D100, calc.pct)
          /\ calc.pct.e <= 0
          /\ BigCmp(BigShl(AbsDiff(ScaledResult(calc.pct, calc.c),
                                   ScaledRatio(calc.pct, calc.p1)),
                           MantBits - 2),
                    ScaledRatio(calc.pct, calc.p1)) <= 0

\* the percentage of a ratio that no binary64 number equals (1 of 3) has
\* been computed
C3_Witness ==
  /\ calc.phase = "percentage"
  /\ calc.c = 3 /\ calc.p1 = 1
  /\ calc.pct # DZero

\* the sum of a count over a set of documents, an absent count as 0
RECURSIVE TotalOf(_, _)
TotalOf(docs, field) ==
  IF docs = {} THEN 0
  ELSE LET d == CHOOSE x \in docs : TRUE
           v == IF field = "conducted" THEN d.conducted ELSE d.present
       IN  (IF v = Missing THEN 0 ELSE v) + TotalOf(docs \ {d}, field)

\* C4: in every reachable state the Summary totals are the sums of
\* conducted and of present over exactly the records of the most recently
\* pushed snapshot (an absent count as 0), overallPercentage is
\* calculatePercentage of the two totals, and a record whose deletion
\* preceded that snapshot is not in the local collection
C4_SummaryOfLastPush ==
  /\ SubjectIds = {d.id : d \in lastPush.docs}
  /\ Len(subjects) = Cardinality(lastPush.docs)
  /\ summary.totalConducted = TotalOf(lastPush.docs, "conducted")
  /\ summary.totalPresent = TotalOf(lastPush.docs, "present")
  /\ summary.overallPercentage =
       calculatePercentage(TotalOf(lastPush.docs, "present"),
                           TotalOf(lastPush.docs, "conducted"))
  /\ \A id \in lastPush.gone : id \notin SubjectIds

\* the push that follows a deletion has been delivered and a record with an
\* absent count remains
C4_Witness ==
  /\ lastPush.gone # {}
  /\ Len(subjects) = 1
  /\ subjects[1].conducted = Missing
  /\ summary.totalPresent = 2 /\ summary.totalConducted = 0

ErrorOf(op) ==
  IF op = "add" THEN ErrAdd ELSE IF op = "update" THEN ErrUpdate ELSE ErrDelete

C6_Step ==
  /\ \A w \in awaiting :
       (mounted /\ WriteRejected(w)) =>
          (error' = ErrorOf(w.op) /\ subjects' = subjects)
  /\ subjects' # subjects => SnapshotDelivered
  /\ subjects' = SortByName(DocsInOrder(lastPush'.docs))

\* C6: when a create, update or delete call fails the error message is set
\* and the local collection stays the last pushed snapshot; no step other
\* than a snapshot push changes the local collection
C6_WritesLeaveView == [][C6_Step]_vars

\* a failed write is reported while the pushed records are still shown
C6_Witness ==
  /\ error \in {ErrUpdate, ErrDelete}
  /\ subjects # <<>>
  /\ subjects = SortByName(DocsInOrder(lastPush.docs))

\* C8: every record of the local collection belongs to the partition
\* users/{userId}/subjects of the current userId, also after the identity
\* has changed
C8_OwnRecordsOnly ==
  \A i \in 1..Len(subjects) : docOwner[subjects[i].id] = userId

C9_State ==
  /\ Cardinality(listeners) <= 1
  /\ listeners # {} => (mounted /\ userId # Null /\ db # Null)
  /\ effectDeps = <<userId, db>> =>
       \A l \in listeners : l.uid = userId /\ l.sid = unsubscribe

C9_Step ==
  /\ (SubscriptionEffect /\ userId # Null /\ db # Null) =>
        listeners' = {[sid |-> unsubscribe', uid |-> userId]}
  /\ (effectDeps' # effectDeps \/ mounted' # mounted) =>
        \A l \in listeners : l \notin listeners'
  /\ SnapshotDelivered => Head(inflight).sid = unsubscribe
  /\ \A l \in listeners : SnapshotError(l) => l.sid = unsubscribe

\* C9: a subscription exists only while userId and db are both set, the
\* effect establishes it when they are, at most one is active, it is
\* unsubscribed when the effect re-runs or the component is discarded, and
\* the callbacks that run belong to the subscription the effect holds
C9_OneLiveSubscription == C9_State /\ [][C9_Step /\ C9_State']_vars

\* after a re-subscription a snapshot of the former subscription is still
\* queued
C9_Witness ==
  /\ Cardinality(listeners) = 1
  /\ unsubscribe > 1
  /\ inflight # <<>>
  /\ Head(inflight).sid < unsubscribe

C5_Step ==
  advice' # advice =>
    LET a  == advice'[1]
        tp == summary.totalPresent
        tc == summary.totalConducted
        t  == targetAdvicePercentage
    IN  /\ a.met = (tc > 0 /\ 100 * tp >= t * tc)
        /\ a.met = DGe(summary.overallPercentage, DFromInt(t))
        /\ ~a.met => a.needed = calculateProjection(tp, tc, t)
        /\ a.met => a.needed = Missing
        /\ subjects = <<>> =>
             /\ summary = [totalConducted |-> 0, totalPresent |-> 0,
                           overallPercentage |-> DZero]
             /\ ~a.met /\ a.needed = 0 /\ a.current = 0

\* C5: the advisor takes the congratulatory branch exactly when
\* overallPercentage >= target, otherwise it reports
\* calculateProjection(totalPresent, totalConducted, target); for the empty
\* collection the Summary is {0, 0, 0}, the branch is the second one and
\* the number reported is 0
C5_AdvisorBranch == [][C5_Step]_vars

\* advice given when the overall percentage equals the target
C5_Witness ==
  /\ advice # <<>>
  /\ advice[1].met /\ advice[1].current = 100 * advice[1].target
  /\ summary.totalConducted > 0

\* C7: every record the add-subject action writes has conducted = 0 and
\* present = 0, a name without surrounding white space and neither an empty
\* name nor an empty type
C7_AddedRecords ==
  /\ \A w \in awaiting :
       w.op = "add" =>
         /\ w.name # <<>> /\ w.type # <<>>
         /\ Head(w.name) # Space /\ w.name[Len(w.name)] # Space
  /\ \A u \in Users : \A d \in store[u] :
       /\ d.conducted = 0 /\ d.present = 0
       /\ d.name # <<>> /\ d.type # <<>>

\* the text of a count input that denotes a non-negative integer for
\* parseInt: after leading white space a digit, or + and a digit, or - and
\* a run of digits that are all 0
AcceptedText(str) ==
  LET t == TrimStart(str)
  IN  /\ t # <<>>
      /\ \/ IsDigit(t[1])
         \/ Len(t) >= 2 /\ t[1] = "+" /\ IsDigit(t[2])
         \/ /\ Len(t) >= 2 /\ t[1] = "-" /\ IsDigit(t[2])
            /\ \A i \in 2..Len(t) :
                 (\A j \in 2..i : IsDigit(t[j])) => t[i] = "0"

RejectedTexts == {str \in EditStrings : ~AcceptedText(str)}

C10_State ==
  /\ \A w \in awaiting : w.op = "update" => w.value \in Nat
  /\ \A u \in Users : \A d \in store[u] :
       d.conducted \in Nat /\ d.present \in Nat

C10_Step ==
  \A value \in RejectedTexts : \A id \in 1..MaxDocs, field \in CountFields :
     handleUpdateSubject(id, field, value) => UNCHANGED vars

====
